---- MODULE Spec2Model ----
(***************************************************************************)
(* A model of the cDNA microarray viewer: the ScrollableImage pane (image  *)
(* pyramid, zoom / pan state machine, contrast change) and the GUI's       *)
(* debounced, threaded contrast adjustment.                                *)
(*                                                                         *)
(* A ScrollableImage object is a record whose fields carry the names of    *)
(* the attributes of the class.  A raster is represented by what decides   *)
(* its pixels: the 16-bit source is fixed after load, so a windowed raster *)
(* is the contrast window it was computed with, and a resized raster is    *)
(* that window together with its (width, height).                          *)
(*                                                                         *)
(* Python exceptions leave a Tk callback half-way: the assignments made    *)
(* before the raise stay.  Every handler is therefore written as a         *)
(* function from the object before the event to the object after it, with  *)
(* the exception (if any) recorded in the field exc.                       *)
(***************************************************************************)
EXTENDS Integers, Sequences, FiniteSets, TLC

VARIABLES gim,        \* GUI.gim : the ScrollableImage of the green channel
          rim,        \* GUI.rim : the ScrollableImage of the red channel
          gui,        \* the GUI object's contrast / threading fields
          budget,     \* events of each bounded kind still allowed
          call        \* a call of a pure function: its arguments and result

vars == <<gim, rim, gui, budget, call>>

----------------------------------------------------------------------------
(* Bounds of the model *)

\* contrast changes a behaviour of the pane may contain
MaxContrChanges == 2
\* canvas <Configure> events a behaviour of the pane may contain
MaxResizes == 2
\* the deepest integer level the user zooms to in the full pane specification
MaxLevel == 3
\* canvas <Configure> events of the deep-zoom specification (the first maps it)
MaxDeepResizes == 1
\* slider movements a behaviour of the GUI may contain
MaxSliderMoves == 3
\* loads, mode switches and scroll events a behaviour of the application may contain
MaxLoads == 2
MaxModeSwitches == 3
MaxPaneScrolls == 2
\* loads in the target-selection specification
MaxSelectLoads == 2
\* loads, mode switches and slider changes in the specification of the
\* application with its contrast panel
MaxApplyLoads == 1
MaxApplyModes == 2
MaxApplySlides == 1
\* resizes of the canvas in the zoom-and-resize specification
MaxZoomResizes == 3
\* resizes of the canvas in the narrow-canvas specification
MaxFitResizes == 2
\* resizes of the canvas and calls of zoom_to_level in the zoom_to_level specification
MaxLevelResizes == 2
MaxJumps == 2

----------------------------------------------------------------------------
(* Program constants *)

MAX_INZOOM_LEVEL == 13
STD_LOWER == 0
STD_UPPER == 65535
DEFAULT_CENTER == 32767
DEFAULT_WIDTH == 65535

\* Python's None, as the value of p_level, old_img_w, ... before they are set
None == -1000
\* the pyramid key "outscroll" of the Fit level
outscroll == 1000

\* ZOOM_FACTOR = 1.15 = ZOOM_NUM / ZOOM_DEN
ZOOM_NUM == 23
ZOOM_DEN == 20

----------------------------------------------------------------------------
(* Arithmetic of the code, as Python computes it *)

Max(a, b) == IF a >= b THEN a ELSE b
Min(a, b) == IF a <= b THEN a ELSE b

RECURSIVE Pow2Le(_, _)
\* the largest power of two p * 2^k that is <= x
Pow2Le(x, p) == IF 2 * p <= x THEN Pow2Le(x, 2 * p) ELSE p

\* int(n * ZOOM_FACTOR) for an integer n >= 0, in IEEE double arithmetic.  The
\* double nearest 1.15 is 1.15 - 0.4 * 2^-52, so the product lies just below
\* 23n/20.  When 23n/20 is not an integer that changes nothing; when it is
\* (n = 20j), the product rounds back to 23j only if j * 2^-49 is at most half
\* the spacing of the doubles below 23j, i.e. 16j <= the power of two below 23j;
\* otherwise int() yields 23j - 1 (int(100 * 1.15) = 114).
IntTimesZoom(n) ==
    IF n > 0 /\ n % ZOOM_DEN = 0
         /\ 16 * (n \div ZOOM_DEN) > Pow2Le(ZOOM_NUM * (n \div ZOOM_DEN), 1)
    THEN (ZOOM_NUM * n) \div ZOOM_DEN - 1
    ELSE (ZOOM_NUM * n) \div ZOOM_DEN

\* int(n / ZOOM_FACTOR) and int(n * (1 / ZOOM_FACTOR)) for an integer n >= 0:
\* both double results lie at or just above 20n/23, so int() is the exact floor.
IntOverZoom(n) == (ZOOM_DEN * n) \div ZOOM_NUM

\* IEEE double arithmetic for h * (a / float(b)), for 0 <= h < 2^15,
\* 0 <= a, 0 < b < 2^15 and results below 2^30.  A real x >= 0 is held as a
\* bit string, most significant bit first, of IntBits bits before the binary
\* point and FracBits bits after it; sticky says that x has further nonzero
\* bits below the last one held.  A limb is LimbBits consecutive bits.
IntBits == 30
FracBits == 75
Mantissa == 53
LimbBits == 15

\* the bits of the integer q, 0 <= q < 2^30
BitsOfInt(q) == [i \in 1..IntBits |-> (q \div (2 ^ (IntBits - i))) % 2]

RECURSIVE PowMod2(_, _)
\* 2^i mod b
PowMod2(i, b) ==
    IF i = 0 THEN 1 % b
    ELSE IF i % 2 = 1 THEN (2 * PowMod2(i - 1, b)) % b
    ELSE (PowMod2(i \div 2, b) * PowMod2(i \div 2, b)) % b

\* the remainder of the long division rem / b after i bits, for 0 <= rem < b
RemAfter(rem, b, i) == (rem * PowMod2(i, b)) % b

\* the first n bits after the binary point of rem / b
FracOf(rem, b, n) ==
    [i \in 1..n |-> IF 2 * RemAfter(rem, b, i - 1) >= b THEN 1 ELSE 0]

\* the real a / b: its bits, and whether nonzero bits follow the last one held
QuotientBits(a, b) == BitsOfInt(a \div b) \o FracOf(a % b, b, FracBits)
QuotientSticky(a, b) == RemAfter(a % b, b, FracBits) # 0

\* the position at which a carry into position pos stops
CarryStop(bits, pos) ==
    CHOOSE k \in 1..pos : bits[k] = 0 /\ \A j \in (k + 1)..pos : bits[j] = 1

\* bits with one unit added at position pos, the carry stopping at z
AddUlpAt(bits, pos, z) ==
    [i \in 1..Len(bits) |-> IF i < z THEN bits[i]
                            ELSE IF i = z THEN 1
                            ELSE IF i <= pos THEN 0 ELSE bits[i]]

\* bits with one unit added at position pos (the bit string has a leading 0)
AddUlp(bits, pos) == AddUlpAt(bits, pos, CarryStop(bits, pos))

\* the position of the first 1 of a bit string that has one
FirstOne(bits) ==
    CHOOSE k \in 1..Len(bits) : bits[k] = 1 /\ \A j \in 1..(k - 1) : bits[j] = 0

\* bits cut after position last
CutAfter(bits, last) == [i \in 1..Len(bits) |-> IF i <= last THEN bits[i] ELSE 0]

\* bits rounded at position last to the nearest, ties to even
RoundAt(bits, sticky, last) ==
    IF last >= Len(bits) THEN bits
    ELSE IF /\ bits[last + 1] = 1
            /\ \/ sticky
               \/ bits[last] = 1
               \/ \E i \in (last + 2)..Len(bits) : bits[i] = 1
         THEN AddUlp(CutAfter(bits, last), last)
         ELSE CutAfter(bits, last)

\* the real held by bits and sticky, rounded to the nearest double
RoundToDouble(bits, sticky) ==
    IF \A i \in 1..Len(bits) : bits[i] = 0 THEN bits
    ELSE RoundAt(bits, sticky, FirstOne(bits) + Mantissa - 1)

RECURSIVE BitsValue(_, _, _)
\* the integer written by bits lo..hi
BitsValue(bits, lo, hi) ==
    IF lo = hi THEN bits[lo]
    ELSE BitsValue(bits, lo, (lo + hi) \div 2) * (2 ^ (hi - (lo + hi) \div 2))
             + BitsValue(bits, (lo + hi) \div 2 + 1, hi)

RECURSIVE TimesInt(_, _, _, _)
\* limbs 1..k of the product of the bit string by the integer h, given the
\* carry out of the limbs to the right of k
TimesInt(bits, h, k, carry) ==
    IF k = 0 THEN <<>>
    ELSE TimesInt(bits, h, k - 1,
                  (BitsValue(bits, LimbBits * (k - 1) + 1, LimbBits * k) * h + carry)
                      \div (2 ^ LimbBits))
             \o <<(BitsValue(bits, LimbBits * (k - 1) + 1, LimbBits * k) * h + carry)
                      % (2 ^ LimbBits)>>

\* the bit string of a sequence of limbs
BitsOfLimbs(limbs) ==
    [i \in 1..(LimbBits * Len(limbs)) |->
        (limbs[((i - 1) \div LimbBits) + 1]
            \div (2 ^ (LimbBits - 1 - ((i - 1) % LimbBits)))) % 2]

\* int(h * r) for the double r
FloorOfProduct(h, r) ==
    BitsValue(RoundToDouble(BitsOfLimbs(TimesInt(r, h, Len(r) \div LimbBits, 0)), FALSE),
              1, IntBits)

\* int(h * (a / float(b))).  When b is a power of two both the quotient and the
\* product are exact doubles and int() is the exact floor.
IntMulRatio(h, a, b) ==
    IF Pow2Le(b, 1) = b THEN (h * a) \div b
    ELSE FloorOfProduct(h, RoundToDouble(QuotientBits(a, b), QuotientSticky(a, b)))

\* max(0, min(v, hi)): the clamp of an offset to [0, hi]
clamp_unbounded(v, hi) == Max(0, v)
clamp(v, hi) == Max(0, Min(v, hi))

\* resize_keeping_ratio, on the (width, height) of the image; the result is
\* the (width, height) handed to cv2.resize.  The arguments are already
\* int()-ed by the caller's operator.
resize_keeping_ratio(shape, width, height) ==
    LET w == shape[1]
        h == shape[2]
    IN  IF width = None /\ height = None THEN <<w, h>>
        ELSE IF width = None THEN <<IntMulRatio(w, height, h), height>>
        ELSE <<width, IntMulRatio(h, width, w)>>

----------------------------------------------------------------------------
(* ScrollableImage *)

\* a pyramid entry (resized raster, (w, h), contrast window): the raster is the
\* window of the full-resolution windowed image it was resized from
Entry(im, dims, contr) == [im |-> im, dims |-> dims, contr |-> contr]

\* the bookkeeping every handler starts with: which handler ran, the branch it
\* took, the exception it ended with, the pyramid keys it built
Begin(s, op) == [s EXCEPT !.op = op, !.branch = "", !.exc = "", !.built = {}]

Raise(s, e) == [s EXCEPT !.exc = e]

Br(s, b) == [s EXCEPT !.branch = b]

\* ScrollableImage.__init__ with _init_mdna and _init_pyramid (PRE_COMP is
\* False): the object right after construction, before the canvas is mapped
\* (winfo_width() and winfo_height() are 1 until then)
ScrollableImage(shape, width, lower, upper) ==
    LET d == resize_keeping_ratio(shape, width, None)
    IN  [contr            |-> <<lower, upper>>,
         offset_x         |-> 0,
         offset_y         |-> 0,
         pyramid          |-> (0 :> Entry(<<lower, upper>>, d, <<lower, upper>>)),
         c_level          |-> 0,
         p_level          |-> None,
         or_shape         |-> shape,
         old_img_w        |-> None,
         old_img_h        |-> None,
         orig_windowed_im |-> <<lower, upper>>,
         tk_h             |-> d[2],
         cnvs_w           |-> 1,
         cnvs_h           |-> 1,
         mapped           |-> FALSE,
         last_scroll_time |-> 0,
         op               |-> "__init__",
         branch           |-> "",
         exc              |-> "",
         built            |-> {0},
         fit_from         |-> None,
         round_trip       |-> FALSE]

\* _crop_n_show: the displayed image becomes the crop; only its height is read
\* again (by _upd_upper_bound)
crop_n_show(s, offset_y, y2) ==
    LET h == s.pyramid[s.c_level].dims[2]
    IN  [s EXCEPT !.tk_h = Max(0, Min(y2, h) - Min(offset_y, h))]

move_to(s, offset_x, offset_y) ==
    IF s.c_level \notin DOMAIN s.pyramid THEN Raise(s, "KeyError")
    ELSE LET dims == s.pyramid[s.c_level].dims
             y2   == Min(offset_y + s.cnvs_h, dims[2])
         IN  crop_n_show(s, offset_y, y2)

add_to_pyramid(s, level, width, height) ==
    LET d == resize_keeping_ratio(s.or_shape, width, height)
    IN  IF d[1] <= 0 \/ d[2] <= 0 THEN Raise(s, "cv2.error")
        ELSE [s EXCEPT !.pyramid = (level :> Entry(s.orig_windowed_im, d, s.contr)) @@ @,
                       !.built = @ \cup {level}]

\* the (re)build of the Fit entry, in mouse_scroll and in _upd_upper_bound
build_outscroll(s) ==
    LET d == resize_keeping_ratio(s.or_shape, None, s.cnvs_h)
    IN  IF d[1] <= 0 \/ d[2] <= 0 THEN Raise(s, "cv2.error")
        ELSE [s EXCEPT !.pyramid = (outscroll :> Entry(s.orig_windowed_im, d, s.contr)) @@ @,
                       !.built = @ \cup {outscroll}]

stale_key_only(s, level) == level \notin DOMAIN s.pyramid
stale_always(s, level) == TRUE
\* level not in pyramid or pyramid[level][2] != contr
stale(s, level) ==
    level \notin DOMAIN s.pyramid \/ s.pyramid[level].contr # s.contr

zoom_image(s, mouse_x_old, mouse_y_old, canvas_mouse_x, canvas_mouse_y) ==
    IF s.c_level \notin DOMAIN s.pyramid THEN Raise(s, "KeyError")
    ELSE IF s.old_img_w = None THEN Raise(s, "TypeError")
    ELSE
    LET dims == s.pyramid[s.c_level].dims
        nx == IF dims[1] > s.old_img_w THEN IntTimesZoom(mouse_x_old)
                                       ELSE IntOverZoom(mouse_x_old)
        ny == IF dims[2] > s.old_img_h THEN IntTimesZoom(mouse_y_old)
                                       ELSE IntOverZoom(mouse_y_old)
        max_x_offset == Max(dims[1] - s.cnvs_w, 0)
        max_y_offset == Max(dims[2] - s.cnvs_h, 0)
        ox == clamp(nx - canvas_mouse_x, max_x_offset)
        oy == clamp(ny - canvas_mouse_y, max_y_offset)
        crop_y2 == Min(dims[2], oy + s.cnvs_h)
    IN  crop_n_show([s EXCEPT !.offset_x = ox, !.offset_y = oy], oy, crop_y2)

\* the tail of mouse_scroll: _zoom_image under try / finally
scroll_finish(s, x, y) ==
    IF s.exc # "" THEN s
    ELSE [zoom_image(s, s.offset_x + x, s.offset_y + y, x, y)
              EXCEPT !.last_scroll_time = 1]

below_max_inclusive(s) == s.c_level <= MAX_INZOOM_LEVEL
\* self.c_level < self.MAX_INZOOM_LEVEL
below_max(s) == s.c_level < MAX_INZOOM_LEVEL

\* mouse_scroll, event.delta > 0 (lines 339-350)
scroll_in(s, x, y) ==
    LET s2 == IF s.c_level = outscroll
                  THEN [s EXCEPT !.c_level = s.p_level, !.branch = "in_from_fit"]
              ELSE IF s.c_level = None
                  THEN Raise(s, "TypeError")
              ELSE IF below_max(s)
                  THEN [s EXCEPT !.p_level = s.c_level, !.c_level = s.c_level + 1,
                                 !.branch = "in_step"]
              ELSE Br(s, "in_max")
        s3 == IF stale(s2, s2.c_level)
                  THEN add_to_pyramid(s2, s2.c_level, IntTimesZoom(s.old_img_w),
                                      IntTimesZoom(s.old_img_h))
                  ELSE s2
    IN  IF s2.exc # "" \/ s2.branch = "in_max" THEN s2 ELSE scroll_finish(s3, x, y)

RECURSIVE scroll_down_level(_, _)
\* the while loop of lines 373-375
scroll_down_level(s, level) ==
    IF level \in DOMAIN s.pyramid
         /\ s.pyramid[level].dims[2] > s.pyramid[outscroll].dims[2]
    THEN scroll_down_level(s, level - 1)
    ELSE level

\* mouse_scroll, event.delta < 0 with c_level = "outscroll" and a candidate
\* height above the canvas height (lines 372-381)
scroll_out_from_fit(s, x, y) ==
    IF s.p_level = None /\ None \in DOMAIN s.pyramid
         /\ s.pyramid[None].dims[2] > s.pyramid[outscroll].dims[2]
    THEN Raise(s, "TypeError")                         \* level -= 1 on None
    ELSE
    LET level == scroll_down_level(s, s.p_level)
        s2 == Br(s, "out_from_fit")
        s3 == IF ~stale(s2, level) THEN s2
              ELSE IF level = None THEN Raise(s2, "TypeError")     \* level + 1
              ELSE IF level + 1 \notin DOMAIN s2.pyramid THEN Raise(s2, "KeyError")
              ELSE add_to_pyramid(s2, level,
                                  IntOverZoom(s2.pyramid[level + 1].dims[1]),
                                  IntOverZoom(s2.pyramid[level + 1].dims[2]))
    IN  IF s3.exc # "" THEN s3
        ELSE scroll_finish([s3 EXCEPT !.c_level = level], x, y)

\* a step down that stops at level 0
step_down_to_zero(c_level) == Max(0, c_level - 1)
\* self.c_level -= 1
step_down(c_level) == c_level - 1

\* mouse_scroll, event.delta < 0 (lines 353-381)
scroll_out(s, x, y) ==
    LET w == IntOverZoom(s.old_img_w)
        h == IntOverZoom(s.old_img_h)
    IN  IF h <= s.cnvs_h
            THEN LET s2 == build_outscroll(Br(s, "out_fit"))
                 IN  IF s2.exc # "" THEN s2
                     ELSE scroll_finish([s2 EXCEPT !.c_level = outscroll], x, y)
        ELSE IF s.c_level # outscroll
            THEN IF s.c_level = None
                     THEN Raise([s EXCEPT !.p_level = s.c_level], "TypeError")
                 ELSE LET s2 == [s EXCEPT !.p_level = s.c_level,
                                          !.c_level = step_down(s.c_level),
                                          !.branch = "out_step"]
                          s3 == IF stale(s2, s2.c_level)
                                    THEN add_to_pyramid(s2, s2.c_level, w, h)
                                    ELSE s2
                      IN  scroll_finish(s3, x, y)
        ELSE scroll_out_from_fit(s, x, y)

\* a wheel event that did not turn the wheel taken for a zoom-in
is_inscroll_or_still(delta) == delta >= 0
\* event.delta > 0
is_inscroll(delta) == delta > 0

\* ScrollableImage.mouse_scroll.  Time is abstracted: last_scroll_time is 0
\* (never set) or 1 (set by an earlier scroll), and soon says that the event
\* arrives less than self.delay after a set last_scroll_time
mouse_scroll(s0, delta, x, y, soon) ==
    LET s == Begin(s0, "mouse_scroll")
    IN  IF s.last_scroll_time # 0 /\ soon THEN Br(s, "skipped")
        ELSE IF s.c_level \notin DOMAIN s.pyramid THEN Raise(s, "KeyError")
        ELSE LET dims == s.pyramid[s.c_level].dims
                 s1 == [s EXCEPT !.old_img_w = dims[1], !.old_img_h = dims[2]]
             IN  IF is_inscroll(delta) THEN scroll_in(s1, x, y)
                 ELSE IF delta < 0 THEN scroll_out(s1, x, y)
                 ELSE Br(s1, "anomaly")

RECURSIVE upper_bound_level(_, _)
\* the while loop of lines 134-135
upper_bound_level(s, level) ==
    IF level \in DOMAIN s.pyramid /\ s.pyramid[level].dims[2] < s.cnvs_h
    THEN upper_bound_level(s, level + 1)
    ELSE level

upd_upper_bound(s) ==
    IF ~(s.tk_h < s.cnvs_h) THEN Br(s, "no_fit")
    ELSE IF s.p_level = None /\ None \in DOMAIN s.pyramid
              /\ s.pyramid[None].dims[2] < s.cnvs_h
        THEN Raise(s, "TypeError")                     \* level += 1 on None
    ELSE LET level == upper_bound_level(s, s.p_level)
             s2 == build_outscroll(Br(s, "fit"))
         IN  IF s2.exc # "" THEN s2
             ELSE zoom_image([s2 EXCEPT !.p_level = level, !.c_level = outscroll],
                             0, 0, 0, 0)

\* _upd_center, the <Configure> handler: the canvas has its new size when the
\* handler runs
upd_center(s0, width, height) ==
    LET s  == [Begin(s0, "_upd_center") EXCEPT !.cnvs_w = width, !.cnvs_h = height,
                                               !.mapped = TRUE]
        s1 == move_to(s, s.offset_x, s.offset_y)
    IN  IF s1.exc # "" THEN s1 ELSE upd_upper_bound(s1)

\* drag_im followed by rec_pos; (dx, dy) = (event.x - last_x, event.y - last_y)
drag_im(s0, dx, dy) ==
    LET s == Begin(s0, "drag_im")
    IN  IF s.c_level \notin DOMAIN s.pyramid THEN Raise(s, "KeyError")
        ELSE LET dims == s.pyramid[s.c_level].dims
                 max_x_offset == Max(dims[1] - s.cnvs_w, 0)
                 max_y_offset == Max(dims[2] - s.cnvs_h, 0)
                 ox == clamp(s.offset_x - dx, max_x_offset)
                 oy == clamp(s.offset_y - dy, max_y_offset)
             IN  move_to([s EXCEPT !.offset_x = ox, !.offset_y = oy], ox, oy)

\* alter_contr emptying the cache of every level but the current one
alter_contr_clearing(s0, contr) ==
    LET s == [Begin(s0, "alter_contr") EXCEPT !.contr = contr]
    IN  IF s.c_level \notin DOMAIN s.pyramid THEN Raise(s, "KeyError")
        ELSE IF s.pyramid[s.c_level].contr = contr THEN Br(s, "same")
        ELSE LET s1 == [s EXCEPT !.orig_windowed_im = contr, !.branch = "rebuilt",
                                 !.pyramid = [l \in {s.c_level} |-> s.pyramid[l]]]
                 cur == s1.pyramid[s1.c_level].dims
                 s2 == add_to_pyramid(s1, s1.c_level, cur[1], cur[2])
             IN  IF s2.exc # "" THEN s2 ELSE move_to(s2, s2.offset_x, s2.offset_y)

alter_contr(s0, contr) ==
    LET s == [Begin(s0, "alter_contr") EXCEPT !.contr = contr]
    IN  IF s.c_level \notin DOMAIN s.pyramid THEN Raise(s, "KeyError")
        ELSE IF s.pyramid[s.c_level].contr = contr THEN Br(s, "same")
        ELSE LET s1 == [s EXCEPT !.orig_windowed_im = contr, !.branch = "rebuilt"]
                 cur == s1.pyramid[s1.c_level].dims
                 s2 == add_to_pyramid(s1, s1.c_level, cur[1], cur[2])
             IN  IF s2.exc # "" THEN s2 ELSE move_to(s2, s2.offset_x, s2.offset_y)

\* what get_pixel_coordinates ends with: an exception, or the pair it returns
Probed(exc, x, y) == [exc |-> exc, x |-> x, y |-> y]

\* get_pixel_coordinates from the computation of scale_x on: (w, h) is the size
\* of the source raster, dims that of the raster of the current level,
\* (relative_x, relative_y) the cursor in that raster
pixel_of(s, w, h, dims, relative_x, relative_y) ==
    IF s.c_level = outscroll \/ s.c_level < 0
    THEN Probed("",
                clamp(IntMulRatio(relative_x, w, dims[1])
                        - (IntMulRatio(s.cnvs_w, w, dims[1]) \div 2) + (w \div 2),
                      w - 1),
                clamp(IntMulRatio(relative_y, h, dims[2]), h - 1))
    ELSE Probed("",
                clamp(IntMulRatio(relative_x, w, dims[1]), w - 1),
                clamp(IntMulRatio(relative_y, h, dims[2]), h - 1))

\* get_pixel_coordinates for a cursor at (x, y) of the canvas
get_pixel_coordinates(s, x, y) ==
    IF s.c_level \notin DOMAIN s.pyramid THEN Probed("KeyError", None, None)
    ELSE IF s.c_level = None THEN Probed("TypeError", None, None)   \* None < 0
    ELSE pixel_of(s, s.or_shape[1], s.or_shape[2], s.pyramid[s.c_level].dims,
                  s.offset_x + x, s.offset_y + y)

\* branches of mouse_scroll that end a zoom-out step
OutBranches == {"out_fit", "out_step", "out_from_fit"}

\* a handler ran to its end on a scroll that was not skipped
Done(s, branches) == s.op = "mouse_scroll" /\ s.branch \in branches /\ s.exc = ""

\* history kept for the properties, not by the code: fit_from is the level that
\* was current when a zoom-out last entered the Fit level, and None when Fit was
\* last entered by a resize of the canvas; round_trip says that the
\* last two events were a completed one-step zoom-in and a completed zoom-out
Track(s0, s1) ==
    [s1 EXCEPT !.fit_from = IF s1.c_level = outscroll /\ s0.c_level # outscroll
                                THEN IF s1.op = "mouse_scroll" THEN s0.c_level ELSE None
                                ELSE s0.fit_from,
               !.round_trip = Done(s0, {"in_step"}) /\ Done(s1, OutBranches)]

\* a call of zoom_to_level: its target, the event.delta it chose, where it
\* stands ("idle" before the call, "loop", "returned", "raised") and the
\* parity of the iterations its loop has made
Looping(level, delta, pc) ==
    [fn |-> "zoom_to_level", level |-> level, delta |-> delta, pc |-> pc,
     turn |-> 0]

\* zoom_to_level up to its loop (lines 455-465): the call returns at once,
\* ends with an exception, or enters the loop with the event.delta it chose
zoom_to_level(s, level) ==
    IF level = s.c_level THEN Looping(level, 0, "returned")
    ELSE IF level = outscroll THEN Looping(level, -1, "loop")
    ELSE IF s.c_level = outscroll THEN Looping(level, 1, "loop")
    ELSE IF s.c_level = None THEN Looping(level, 0, "raised")   \* level < None
    ELSE IF level < s.c_level THEN Looping(level, -1, "loop")
    ELSE Looping(level, 1, "loop")

\* the test of the while loop (line 467) on the session as an iteration left
\* it; an exception of mouse_scroll leaves zoom_to_level
loop_test(c, s) ==
    IF s.exc # "" THEN [c EXCEPT !.pc = "raised"]
    ELSE IF s.c_level = c.level THEN [c EXCEPT !.pc = "returned"]
    ELSE c

----------------------------------------------------------------------------
(* MDNA.windowing on one sample of the 16-bit raster                        *)

\* numpy.clip(cy, lower, upper) = minimum(maximum(cy, lower), upper)
clip(s, lower, upper) == Min(Max(s, lower), upper)

windowing_unclipped(s, lower, upper, nan) ==
    IF lower = upper THEN nan
    ELSE ((255 * (s - lower)) \div (upper - lower)) % 256
\* ((clip - lower) / (upper - lower) * 255).astype(uint8): the double product
\* truncated, which for 16-bit operands is the floor of the exact quotient.
\* With lower = upper the quotient is 0/0 = NaN, and the cast of NaN to uint8
\* is undefined: nan is the byte the build leaves.
windowing(s, lower, upper, nan) ==
    IF lower = upper THEN nan
    ELSE (255 * (clip(s, lower, upper) - lower)) \div (upper - lower)

\* no call of a pure function is under observation
NoCall == [fn |-> ""]

----------------------------------------------------------------------------
(* The GUI object: contrast sliders, the debounce timer, the computation    *)
(* thread and the callbacks it hands back to the main loop                  *)

\* int() of half an integer: Python truncates toward zero
IntHalf(n2) == IF n2 >= 0 THEN n2 \div 2 ELSE -((-n2) \div 2)

\* (max(STD_LOWER, int(center-length/2)), min(STD_UPPER, int(center+length/2)))
windowing_parameters(center, length) ==
    << Max(STD_LOWER, IntHalf(2 * center - length)),
       Min(STD_UPPER, IntHalf(2 * center + length)) >>

\* a session attribute of the GUI that holds None
Absent == [op |-> "None"]

\* a threading.Thread(target=self._run_contrast_adjustment) that was started:
\* its position in the function and the values it holds on its stack
NewThread ==
    [pc |-> "start", target |-> "", center |-> None, width |-> None,
     lo |-> None, hi |-> None]
FinishedThread == [NewThread EXCEPT !.pc = "done"]
is_alive(t) == t.pc # "done"
Alive(g) == {i \in DOMAIN g.threads : is_alive(g.threads[i])}

\* the GUI after __init__ and a load of two images (clear_all, load_n_disp)
GuiInit ==
    [comb_clicked |-> FALSE, green_clicked |-> FALSE, red_clicked |-> FALSE,
     both_clicked |-> TRUE,
     window_center |-> DEFAULT_CENTER, window_width |-> DEFAULT_WIDTH,
     lower_c1 |-> STD_LOWER, higher_c1 |-> STD_UPPER,
     lower_c2 |-> STD_LOWER, higher_c2 |-> STD_UPPER,
     lower_c |-> STD_LOWER, higher_c |-> STD_UPPER,
     cim |-> Absent,
     timer |-> FALSE,              \* an after(100, confirm_windowing) is pending
     threads |-> <<>>,             \* every thread started so far
     computation_thread |-> None,  \* index of the thread started last
     after |-> <<>>,               \* callbacks queued with after(0, ...)
     last |-> "",                  \* how confirm_windowing last returned
     requested |-> FALSE,          \* a slider was moved
     toggled |-> FALSE,            \* a radio button was pressed
     selected |-> "both",          \* the button_name toggle_radio_button last got
     exc |-> "",
     im_loaded |-> TRUE, contr_clicked |-> TRUE,
     new_frame |-> "None",         \* the composite frame: None, shown, hidden
     lr_shown |-> TRUE,            \* left_frame and right_frame are packed
     left_pane |-> TRUE,           \* left_frame holds the green image widget
     right_pane |-> TRUE,
     gpath |-> "g.tif", rpath |-> "r.tif",
     last_contr |-> <<DEFAULT_CENTER, DEFAULT_WIDTH>>,
     last_contr_comb |-> <<DEFAULT_CENTER, DEFAULT_WIDTH>>,
     slider_center |-> DEFAULT_CENTER, slider_width |-> DEFAULT_WIDTH,
     cmd_center |-> FALSE,         \* the scale's command is still to be invoked
     cmd_width |-> FALSE,
     op |-> "", branch |-> "",
     entered |-> None]             \* level, at the last mode switch, of the pane it showed

\* cancel the pending timer, if any, and arm a new one
timed_conf(g) == [g EXCEPT !.timer = TRUE]

\* update_entry_center / update_entry_width: the slider's command
update_entry_center(g, value) ==
    timed_conf([g EXCEPT !.window_center = value, !.requested = TRUE])
update_entry_width(g, value) ==
    timed_conf([g EXCEPT !.window_width = value, !.requested = TRUE])

confirm_windowing_unguarded(g) ==
    [g EXCEPT !.threads = Append(@, NewThread),
              !.computation_thread = Len(g.threads) + 1,
              !.last = "started"]
\* returns at once while the thread started last is alive, else starts one
confirm_windowing(g) ==
    IF g.computation_thread # None /\ is_alive(g.threads[g.computation_thread])
    THEN [g EXCEPT !.last = "dropped"]
    ELSE [g EXCEPT !.threads = Append(@, NewThread),
                   !.computation_thread = Len(g.threads) + 1,
                   !.last = "started"]

\* the flag tests at the head of _run_contrast_adjustment
read_target(g) ==
    IF g.green_clicked THEN "green"
    ELSE IF g.red_clicked THEN "red"
    ELSE IF g.both_clicked THEN "both"
    ELSE "none"

\* the objects a step of the program can reach: the GUI and its two panes
World(g, gi, ri) == [gui |-> g, gim |-> gi, rim |-> ri]

\* session.alter_contr(contr) on an attribute that may hold None
call_alter_contr(s, contr) ==
    IF s = Absent THEN s ELSE Track(s, alter_contr(s, contr))

\* disp_alter_contr_ims: apply the stored windows to the targeted panes
disp_alter_contr_ims(w) ==
    LET g == w.gui
        on_g == g.green_clicked \/ g.both_clicked
        on_r == g.red_clicked \/ g.both_clicked
    IN  IF on_g /\ w.gim = Absent
        THEN [w EXCEPT !.gui.exc = "AttributeError"]
        ELSE LET w1 == IF on_g
                       THEN [w EXCEPT !.gim = call_alter_contr(@, <<g.lower_c1, g.higher_c1>>)]
                       ELSE w
             IN  IF on_r /\ w.rim = Absent
                 THEN [w1 EXCEPT !.gui.exc = "AttributeError"]
                 ELSE IF on_r
                      THEN [w1 EXCEPT !.rim = call_alter_contr(@, <<g.lower_c2, g.higher_c2>>)]
                      ELSE w1

\* lambda: self.cim.alter_contr((self.lower_c, self.higher_c))
cim_alter_contr(w) ==
    IF w.gui.cim = Absent
    THEN [w EXCEPT !.gui.exc = "AttributeError"]
    ELSE [w EXCEPT !.gui.cim = call_alter_contr(@, <<w.gui.lower_c, w.gui.higher_c>>)]

\* the main loop runs a callback that was queued with after(0, ...)
run_callback(w, cb) ==
    IF cb = "disp_alter_contr_ims" THEN disp_alter_contr_ims(w) ELSE cim_alter_contr(w)

call_in_thread(w, cb) == run_callback(w, cb)
\* self.root.after(0, cb): the callback is queued for the main loop
root_after(w, cb) == [w EXCEPT !.gui.after = Append(@, cb)]

\* one step of thread i in _run_contrast_adjustment
run_contrast_adjustment(w, i) ==
    LET g == w.gui
        t == g.threads[i]
        Goto(g1, t1) == [w EXCEPT !.gui = [g1 EXCEPT !.threads[i] = t1]]
        Then(w1, t1) == [w1 EXCEPT !.gui.threads[i] = t1]
    IN  CASE t.pc = "start" ->
               IF g.comb_clicked
               THEN Goto(g, [t EXCEPT !.pc = "comb_check"])
               ELSE LET tg == read_target(g)
                    IN Goto(g, [t EXCEPT !.target = tg,
                                         !.pc = IF tg = "none" THEN "after"
                                                ELSE "get_center"])
          [] t.pc = "get_center" ->
               Goto(g, [t EXCEPT !.center = g.window_center, !.pc = "get_width"])
          [] t.pc = "get_width" ->
               LET wp == windowing_parameters(t.center, g.window_width)
               IN Goto(g, [t EXCEPT !.width = g.window_width, !.lo = wp[1],
                                    !.hi = wp[2], !.pc = "store_lo"])
          [] t.pc = "store_lo" ->
               Goto(CASE t.target = "red" -> [g EXCEPT !.lower_c2 = t.lo]
                      [] t.target = "comb" -> [g EXCEPT !.lower_c = t.lo]
                      [] OTHER -> [g EXCEPT !.lower_c1 = t.lo],
                    [t EXCEPT !.pc = "store_hi"])
          [] t.pc = "store_hi" ->
               Goto(CASE t.target = "red" -> [g EXCEPT !.higher_c2 = t.hi]
                      [] t.target = "comb" -> [g EXCEPT !.higher_c = t.hi]
                      [] OTHER -> [g EXCEPT !.higher_c1 = t.hi],
                    [t EXCEPT !.pc = IF t.target = "both" THEN "copy_lo"
                                     ELSE "after"])
          [] t.pc = "copy_lo" ->
               Goto([g EXCEPT !.lower_c2 = g.lower_c1],
                    [t EXCEPT !.lo = g.lower_c1, !.hi = g.higher_c1,
                              !.pc = "copy_hi"])
          [] t.pc = "copy_hi" ->
               Goto([g EXCEPT !.higher_c2 = t.hi], [t EXCEPT !.pc = "after"])
          [] t.pc = "after" ->
               IF t.target = "comb"
               THEN Then(root_after(w, "cim.alter_contr"), FinishedThread)
               ELSE Then(root_after(w, "disp_alter_contr_ims"),
                         [t EXCEPT !.pc = "comb_check"])
          [] t.pc = "comb_check" ->
               IF g.comb_clicked
               THEN Goto(g, [t EXCEPT !.target = "comb", !.pc = "get_center"])
               ELSE Goto(g, FinishedThread)

\* the pressed flag set to True, the others left as they are
toggle_radio_button_additive(g, button_name) ==
    [g EXCEPT !.green_clicked = @ \/ (button_name = "green"),
              !.red_clicked = @ \/ (button_name = "red"),
              !.both_clicked = @ \/ (button_name = "both"),
              !.toggled = TRUE, !.selected = button_name]
\* every <name>_clicked set to False, then the pressed one to True
toggle_radio_button(g, button_name) ==
    [g EXCEPT !.green_clicked = (button_name = "green"),
              !.red_clicked = (button_name = "red"),
              !.both_clicked = (button_name = "both"),
              !.toggled = TRUE, !.selected = button_name]

----------------------------------------------------------------------------
(* GUI: loading an image pair and switching between the two channel panes
   and the composite.  A handler maps a world to a world; gui.exc names the
   exception a handler is propagating, "" when it returned normally. *)

\* size (width, height) of the loaded 16-bit source raster: a tall slide scan
Shape == <<16, 64>>
\* the width handed to the constructor (half the root window's width)
FrameWidth == 8
\* root.winfo_width()
RootWidth == 2 * FrameWidth

\* size of a source raster scanned at twice the resolution
BigShape == <<32, 128>>

\* what the file dialog returns: nothing, a file of another type, a TIFF
\* that decodes, a .tif file that does not decode, a TIFF that decodes into a
\* raster of another size
PathKinds == {"", "a.txt", "ok.tif", "bad.tif", "big.tif"}

\* Scale.set: a change of the value leaves the scale's command to be invoked
slider_center_set(g, value) ==
    IF g.slider_center = value THEN g
    ELSE [g EXCEPT !.slider_center = value, !.cmd_center = TRUE]

slider_width_set(g, value) ==
    IF g.slider_width = value THEN g
    ELSE [g EXCEPT !.slider_width = value, !.cmd_width = TRUE]

\* StringVar.set with its write trace, update_slider_center / update_slider_width
window_center_set(g, value) ==
    slider_center_set([g EXCEPT !.window_center = value], value)

window_width_set(g, value) ==
    slider_width_set([g EXCEPT !.window_width = value], value)

\* the GUI right after __init__: nothing loaded, the contrast panel hidden,
\* both scales set from 0 to their defaults
GuiNew ==
    [GuiInit EXCEPT !.im_loaded = FALSE, !.contr_clicked = FALSE,
                    !.left_pane = FALSE, !.right_pane = FALSE,
                    !.gpath = "", !.rpath = "",
                    !.cmd_center = TRUE, !.cmd_width = TRUE]

GuiBegin(w, name) == [w EXCEPT !.gui.op = name, !.gui.branch = "", !.gui.exc = ""]
GuiRaise(w, e) == [w EXCEPT !.gui.exc = e]
GuiBr(w, b) == [w EXCEPT !.gui.branch = b]
Entered(w, s) == [w EXCEPT !.gui.entered = IF s = Absent THEN None ELSE s.c_level]
Raised(w) == w.gui.exc # ""

\* choose_file accepts the path the dialog returned
accepts_any_file(path) == path # ""
accepts_path(path) == path \in {"ok.tif", "bad.tif", "big.tif"}

\* the file decodes into a raster, so that ScrollableImage(...) returns
decodes(path) == path \in {"ok.tif", "big.tif"}

\* the (width, height) of the raster cv2.imread returns for the file
shape_of(path) == IF path = "big.tif" THEN BigShape ELSE Shape

init_lr_frames(w) ==
    [w EXCEPT !.gui.lr_shown = TRUE, !.gui.left_pane = FALSE, !.gui.right_pane = FALSE]

hide_lr_frames(w) == [w EXCEPT !.gui.lr_shown = FALSE]
show_lr_frames(w) == [w EXCEPT !.gui.lr_shown = TRUE]

\* comb_ims tests new_frame to choose between building and re-packing
always_new_frame(g) == TRUE
new_frame_is_None(g) == g.new_frame = "None"

\* ScrollableImage(gim=, rim=, width=root.winfo_width(), lower, upper)
init_comb_mdna(w) ==
    IF w.gim = Absent \/ w.rim = Absent THEN Absent
    ELSE IF w.gim.or_shape # w.rim.or_shape THEN Absent
    ELSE ScrollableImage(w.gim.or_shape, RootWidth, STD_LOWER, STD_UPPER)

\* slider_center.set(pair[0]); slider_width.set(pair[1])
set_sliders(g, pair) == slider_width_set(slider_center_set(g, pair[1]), pair[2])

\* comb_ims after the try statement that builds the composite: image_window
\* is unbound when the constructor raised
comb_pack(w, image_window) ==
    IF image_window = Absent
    THEN GuiRaise(GuiBr(w, "comb_failed"), "UnboundLocalError")
    ELSE Entered(GuiBr([w EXCEPT !.gui.cim = image_window], "comb_created"), image_window)

\* comb_ims from the test of new_frame on, entering the composite
comb_enter(w) ==
    IF new_frame_is_None(w.gui)
    THEN comb_pack([w EXCEPT !.gui.new_frame = "shown"], init_comb_mdna(w))
    ELSE Entered(GuiBr([w EXCEPT !.gui.new_frame = "shown"], "comb_reused"), w.gui.cim)

\* comb_ims on the way in: last_contr kept, the sliders set to last_contr_comb
keep_last_contr(g) ==
    set_sliders([g EXCEPT !.last_contr = <<g.window_center, g.window_width>>],
                g.last_contr_comb)

\* comb_ims on the way out: the composite frame forgotten, last_contr_comb
\* kept, the sliders set to last_contr
keep_last_contr_comb(g) ==
    set_sliders([g EXCEPT !.new_frame = "hidden",
                          !.last_contr_comb = <<g.window_center, g.window_width>>],
                g.last_contr)

comb_ims(w) ==
    IF ~w.gui.comb_clicked
    THEN comb_enter([hide_lr_frames(w) EXCEPT !.gui = keep_last_contr(@)])
    ELSE Entered(GuiBr([show_lr_frames(w) EXCEPT !.gui = keep_last_contr_comb(@)],
                       "comb_left"), w.gim)

\* the assignment of toggle_button_comb, reached when comb_ims returned
set_comb_clicked(w, state) == IF Raised(w) THEN w ELSE [w EXCEPT !.gui.comb_clicked = state]

toggle_button_comb(w) ==
    IF w.gui.im_loaded THEN set_comb_clicked(comb_ims(w), ~w.gui.comb_clicked) ELSE w

toggle_button_contr(w) ==
    IF w.gui.im_loaded THEN [w EXCEPT !.gui.contr_clicked = ~@] ELSE w

\* clear_all from toggle_radio_button('both') on
clear_values(w) ==
    [w EXCEPT !.gim = Absent, !.rim = Absent,
              !.gui = window_width_set(window_center_set(
                          [toggle_radio_button(@, "both") EXCEPT
                              !.cim = Absent,
                              !.lower_c1 = 0, !.lower_c2 = 0, !.lower_c = 0,
                              !.higher_c1 = 65535, !.higher_c2 = 65535, !.higher_c = 65535],
                          DEFAULT_CENTER), DEFAULT_WIDTH)]

\* clear_all from the test of contr_clicked on
clear_contr(w) ==
    IF Raised(w) THEN w
    ELSE clear_values(IF w.gui.contr_clicked THEN toggle_button_contr(w) ELSE w)

clear_all(w) == clear_contr(IF w.gui.comb_clicked THEN toggle_button_comb(w) ELSE w)

\* the widgets of the frame of that channel are destroyed
empty_frame(w, channel) ==
    IF channel = 1 THEN [w EXCEPT !.gui.left_pane = FALSE]
    ELSE [w EXCEPT !.gui.right_pane = FALSE]

\* init_n_pack_im after the constructor returned image_window
pack_im(w, channel, image_window) ==
    IF channel = 1
    THEN [w EXCEPT !.gim = image_window, !.gui.left_pane = TRUE, !.gui.im_loaded = TRUE]
    ELSE [w EXCEPT !.rim = image_window, !.gui.right_pane = TRUE, !.gui.im_loaded = TRUE]

\* init_n_pack_im after the constructor raised and the frames were made anew:
\* image_window is unbound at the setattr
load_failed(w) ==
    GuiRaise(GuiBr([(IF w.gui.comb_clicked THEN toggle_button_comb(w) ELSE w) EXCEPT
                       !.gui.im_loaded = FALSE], "decode_error"), "UnboundLocalError")

\* the smallest and the largest sample of the loaded raster
RasterSamples == <<100, 60000>>

\* the window taken from the raster's extreme samples, as MDNA._std_contrast
\* computes it
load_contr_min_max(samples) == samples
\* the window init_n_pack_im hands to the constructor (lower=self.STD_LOWER,
\* upper=self.STD_UPPER): the raster's samples are not consulted
load_contr(samples) == <<STD_LOWER, STD_UPPER>>

\* the constructor as init_n_pack_im calls it for a raster of that shape and
\* those extreme samples
new_image_window(shape, width, samples) ==
    ScrollableImage(shape, width, load_contr(samples)[1], load_contr(samples)[2])

\* init_n_pack_im for channel 1 (green, left frame) or 2 (red, right frame)
init_n_pack_im(w, image_path, channel) ==
    IF decodes(image_path)
    THEN pack_im(empty_frame(w, channel), channel,
                 new_image_window(shape_of(image_path), FrameWidth, RasterSamples))
    ELSE load_failed(init_lr_frames(empty_frame(w, channel)))

\* load_n_disp after the green image
load_red(w, rpath) == IF Raised(w) THEN w ELSE init_n_pack_im(w, rpath, 2)

load_n_disp(w, gpath, rpath) == load_red(init_n_pack_im(w, gpath, 1), rpath)

\* choose_file_and_disp after load_n_disp
load_done(w) == IF Raised(w) THEN w ELSE GuiBr(w, "loaded")

\* choose_file_and_disp after clear_all
load_anew(w, path1, path2) ==
    IF Raised(w) THEN w
    ELSE load_done(load_n_disp(init_lr_frames([w EXCEPT !.gui.new_frame = "None"]),
                               path1, path2))

\* choose_file_and_disp after the handler's entry; the dialog returns path1
\* and then, if that one was accepted, path2
choose_files(w, path1, path2) ==
    IF ~accepts_path(path1) THEN GuiRaise(GuiBr(w, "rejected"), "Exception")
    ELSE IF ~accepts_path(path2)
         THEN GuiRaise(GuiBr([w EXCEPT !.gui.gpath = path1], "rejected"), "Exception")
         ELSE load_anew(clear_all([w EXCEPT !.gui.gpath = path1, !.gui.rpath = path2]),
                        path1, path2)

choose_file_and_disp(w, path1, path2) ==
    choose_files(GuiBegin(w, "choose_file_and_disp"), path1, path2)

----------------------------------------------------------------------------
(* The pane on its own: one ScrollableImage under the events Tk delivers *)

\* sizes the canvas takes: one shorter and one taller than the level-0 raster
CanvasSizes == {<<8, 30>>, <<10, 34>>}
\* contrast windows handed to alter_contr
Windows == {<<STD_LOWER, STD_UPPER>>, <<100, 200>>}
\* cursor positions of a scroll event, on a canvas of the given size
MousePos(s) == {<<0, 0>>, <<s.cnvs_w - 1, s.cnvs_h - 1>>}
\* mouse movements of a drag: far beyond the raster, and a short one
Deltas == {<<100, 100>>, <<-3, -9>>}

InitPane ==
    /\ gim = ScrollableImage(Shape, FrameWidth, STD_LOWER, STD_UPPER)
    /\ rim = gim
    /\ gui = GuiInit
    /\ call = NoCall
    /\ budget = [contr |-> MaxContrChanges, resize |-> MaxResizes,
                 slider |-> 0, level |-> MaxLevel]

\* the same pane zoomed as deep as the code allows, its contrast left alone
InitDeep ==
    /\ gim = ScrollableImage(Shape, FrameWidth, STD_LOWER, STD_UPPER)
    /\ rim = gim
    /\ gui = GuiInit
    /\ call = NoCall
    /\ budget = [contr |-> 0, resize |-> MaxDeepResizes,
                 slider |-> 0, level |-> MAX_INZOOM_LEVEL + MaxLevel]

\* <Configure>: the canvas is mapped or resized
Configure ==
    /\ budget.resize > 0
    /\ \E size \in CanvasSizes : gim' = Track(gim, upd_center(gim, size[1], size[2]))
    /\ budget' = [budget EXCEPT !.resize = @ - 1]
    /\ UNCHANGED <<rim, gui, call>>

\* <MouseWheel>
MouseScroll ==
    /\ gim.mapped
    /\ \E delta \in {-1, 0, 1}, pos \in MousePos(gim), soon \in BOOLEAN :
          gim' = Track(gim, mouse_scroll(gim, delta, pos[1], pos[2], soon))
    /\ gim'.c_level \in {None, outscroll} \/ gim'.c_level <= budget.level
    /\ UNCHANGED <<rim, gui, budget, call>>

\* <ButtonPress-1> then <B1-Motion>
DragIm ==
    /\ gim.mapped
    /\ \E d \in Deltas : gim' = Track(gim, drag_im(gim, d[1], d[2]))
    /\ UNCHANGED <<rim, gui, budget, call>>

\* the GUI's scheduled callback runs gim.alter_contr
AlterContr ==
    /\ gim.mapped
    /\ budget.contr > 0
    /\ \E c \in Windows : gim' = Track(gim, alter_contr(gim, c))
    /\ budget' = [budget EXCEPT !.contr = @ - 1]
    /\ UNCHANGED <<rim, gui, call>>

Next == Configure \/ MouseScroll \/ DragIm \/ AlterContr

Spec == InitPane /\ [][Next]_vars

\* drags of the deep-zoom specification: to the far corners only
DragFar ==
    /\ gim.mapped
    /\ \E d \in {<<100, 100>>, <<-100, -100>>} : gim' = Track(gim, drag_im(gim, d[1], d[2]))
    /\ UNCHANGED <<rim, gui, budget, call>>

NextDeep == Configure \/ MouseScroll \/ DragFar

SpecDeep == InitDeep /\ [][NextDeep]_vars

----------------------------------------------------------------------------
(* The pane under zoom steps and resizes alone, on a window that can be made
   taller than the raster of the deepest level *)

\* sizes the canvas takes: one shorter than the level-0 raster, one taller
\* than the raster of level MAX_INZOOM_LEVEL, one shorter than the level-0
\* raster divided by the zoom factor
TallCanvasSizes == {<<8, 30>>, <<10, 250>>, <<8, 20>>}

InitZoom ==
    /\ gim = ScrollableImage(Shape, FrameWidth, STD_LOWER, STD_UPPER)
    /\ rim = gim
    /\ gui = GuiInit
    /\ call = NoCall
    /\ budget = [contr |-> 0, resize |-> MaxZoomResizes,
                 slider |-> 0, level |-> MAX_INZOOM_LEVEL + MaxLevel]

\* <Configure>: the window is mapped, maximised or restored
ConfigureTall ==
    /\ budget.resize > 0
    /\ \E size \in TallCanvasSizes : gim' = Track(gim, upd_center(gim, size[1], size[2]))
    /\ budget' = [budget EXCEPT !.resize = @ - 1]
    /\ UNCHANGED <<rim, gui, call>>

\* <MouseWheel> with the cursor at the corner of the canvas
Zoom ==
    /\ gim.mapped
    /\ \E delta \in {-1, 1} : gim' = Track(gim, mouse_scroll(gim, delta, 0, 0, FALSE))
    /\ gim'.c_level \in {None, outscroll} \/ gim'.c_level <= budget.level
    /\ UNCHANGED <<rim, gui, budget, call>>

NextZoom == ConfigureTall \/ Zoom

ZoomSpec == InitZoom /\ [][NextZoom]_vars

----------------------------------------------------------------------------
(* The pane on a canvas narrower than the raster of the Fit level: zoom
   steps, drags and resizes between a tall and a short window *)

\* sizes the canvas takes: both narrower than the Fit raster of the tall one
NarrowCanvasSizes == {<<10, 250>>, <<10, 30>>}

InitFit ==
    /\ gim = ScrollableImage(Shape, FrameWidth, STD_LOWER, STD_UPPER)
    /\ rim = gim
    /\ gui = GuiInit
    /\ call = NoCall
    /\ budget = [contr |-> 0, resize |-> MaxFitResizes,
                 slider |-> 0, level |-> MaxLevel]

\* <Configure>
ConfigureNarrow ==
    /\ budget.resize > 0
    /\ \E size \in NarrowCanvasSizes :
          gim' = Track(gim, upd_center(gim, size[1], size[2]))
    /\ budget' = [budget EXCEPT !.resize = @ - 1]
    /\ UNCHANGED <<rim, gui, call>>

\* <MouseWheel> with the cursor at a corner of the canvas
ZoomAtCorner ==
    /\ gim.mapped
    /\ \E delta \in {-1, 1}, pos \in MousePos(gim) :
          gim' = Track(gim, mouse_scroll(gim, delta, pos[1], pos[2], FALSE))
    /\ gim'.c_level \in {None, outscroll} \/ gim'.c_level <= budget.level
    /\ UNCHANGED <<rim, gui, budget, call>>

NextFit == ConfigureNarrow \/ ZoomAtCorner \/ DragFar

FitSpec == InitFit /\ [][NextFit]_vars

----------------------------------------------------------------------------
(* The pane under zoom_to_level: calls of zoom_to_level between zoom steps
   and resizes; a call runs its loop to the end before Tk delivers the next
   event *)

\* targets handed to zoom_to_level
TargetLevels == {outscroll, 0, 1, MAX_INZOOM_LEVEL}

InitLevel ==
    /\ gim = ScrollableImage(Shape, FrameWidth, STD_LOWER, STD_UPPER)
    /\ rim = gim
    /\ gui = GuiInit
    /\ call = Looping(None, 0, "idle")
    /\ budget = [contr |-> 0, resize |-> MaxLevelResizes,
                 slider |-> MaxJumps, level |-> MaxLevel]

\* <Configure>
ConfigureIdle ==
    /\ call.pc # "loop"
    /\ budget.resize > 0
    /\ \E size \in CanvasSizes : gim' = Track(gim, upd_center(gim, size[1], size[2]))
    /\ budget' = [budget EXCEPT !.resize = @ - 1]
    /\ UNCHANGED <<rim, gui, call>>

\* <MouseWheel> with the cursor at the corner of the canvas
ZoomIdle ==
    /\ call.pc # "loop"
    /\ gim.mapped
    /\ \E delta \in {-1, 1} : gim' = Track(gim, mouse_scroll(gim, delta, 0, 0, FALSE))
    /\ gim'.c_level \in {None, outscroll} \/ gim'.c_level <= budget.level
    /\ UNCHANGED <<rim, gui, budget, call>>

\* zoom_to_level is called
CallZoomToLevel ==
    /\ call.pc # "loop"
    /\ gim.mapped
    /\ budget.slider > 0
    /\ \E level \in TargetLevels : call' = zoom_to_level(gim, level)
    /\ budget' = [budget EXCEPT !.slider = @ - 1]
    /\ UNCHANGED <<gim, rim, gui>>

\* one iteration of the loop of zoom_to_level that is not skipped by the delay
\* test of mouse_scroll, followed by the test of the loop; the event is the
\* caller's, its cursor at the corner of the canvas
LoopStep ==
    /\ call.pc = "loop"
    /\ gim' = Track(gim, mouse_scroll(gim, call.delta, 0, 0, FALSE))
    /\ call' = loop_test([call EXCEPT !.turn = 1 - @], gim')
    /\ UNCHANGED <<rim, gui, budget>>

NextLevel == ConfigureIdle \/ ZoomIdle \/ CallZoomToLevel \/ LoopStep

LevelSpec == InitLevel /\ [][NextLevel]_vars

\* an iteration of the loop as the call shows it: the parity turns.  Inside
\* the loop no other action is enabled, so a step that turns it is LoopStep
LoopTurn ==
    /\ call.pc = "loop"
    /\ call' \in {[call EXCEPT !.turn = 1 - @, !.pc = pc] :
                     pc \in {"loop", "returned", "raised"}}

\* the interpreter keeps running the loop: while the call is in its loop, an
\* iteration is eventually made
LevelLive == LevelSpec /\ WF_call(LoopTurn)

----------------------------------------------------------------------------
(* The contrast panel: sliders, timer, thread and callbacks over two panes  *)

\* slider positions the user picks
Centers == {DEFAULT_CENTER, 150}
Widths == {DEFAULT_WIDTH, 100}
RadioButtons == {"green", "red", "both"}

InitGui ==
    /\ gim = ScrollableImage(Shape, FrameWidth, STD_LOWER, STD_UPPER)
    /\ rim = gim
    /\ gui = GuiInit
    /\ call = NoCall
    /\ budget = [contr |-> 0, resize |-> 0, slider |-> MaxSliderMoves, level |-> 0]

\* the user moves the window center slider
SlideCenter ==
    /\ budget.slider > 0
    /\ gui.contr_clicked
    /\ \E v \in Centers \ {gui.slider_center} :
          gui' = update_entry_center([gui EXCEPT !.slider_center = v,
                                                 !.cmd_center = FALSE], v)
    /\ budget' = [budget EXCEPT !.slider = @ - 1]
    /\ UNCHANGED <<gim, rim, call>>

\* the user moves the window width slider
SlideWidth ==
    /\ budget.slider > 0
    /\ gui.contr_clicked
    /\ \E v \in Widths \ {gui.slider_width} :
          gui' = update_entry_width([gui EXCEPT !.slider_width = v,
                                                !.cmd_width = FALSE], v)
    /\ budget' = [budget EXCEPT !.slider = @ - 1]
    /\ UNCHANGED <<gim, rim, call>>

\* the 100 ms timer expires: the main loop calls confirm_windowing
TimerFire ==
    /\ gui.timer
    /\ gui' = confirm_windowing([gui EXCEPT !.timer = FALSE])
    /\ UNCHANGED <<gim, rim, budget, call>>

\* the interpreter runs the computation thread for one step
ThreadStep ==
    /\ \E i \in Alive(gui) :
          LET w == run_contrast_adjustment(World(gui, gim, rim), i)
          IN  gui' = w.gui /\ gim' = w.gim /\ rim' = w.rim
    /\ UNCHANGED <<budget, call>>

\* the user presses a radio button of the contrast panel
ToggleRadio ==
    /\ \E b \in RadioButtons : gui' = toggle_radio_button(gui, b)
    /\ gui' # gui
    /\ UNCHANGED <<gim, rim, budget, call>>

\* the thread tests the flags while toggle_radio_button has set all of them
\* to False and not yet set the pressed one: it finds no target
ToggleDuringRead ==
    /\ ~gui.comb_clicked
    /\ \E i \in Alive(gui), b \in RadioButtons :
          /\ gui.threads[i].pc = "start"
          /\ gui' = [toggle_radio_button(gui, b) EXCEPT
                        !.threads[i] = [@ EXCEPT !.target = "none", !.pc = "after"]]
    /\ UNCHANGED <<gim, rim, budget, call>>

\* the main loop runs the callback queued first
RunAfter ==
    /\ gui.after # <<>>
    /\ LET w == run_callback(World([gui EXCEPT !.after = Tail(@)], gim, rim),
                             Head(gui.after))
       IN  gui' = w.gui /\ gim' = w.gim /\ rim' = w.rim
    /\ UNCHANGED <<budget, call>>

NextGui ==
    SlideCenter \/ SlideWidth \/ TimerFire \/ ThreadStep \/ ToggleRadio
        \/ ToggleDuringRead \/ RunAfter

GuiSpec == InitGui /\ [][NextGui]_vars

----------------------------------------------------------------------------
(* The application: loads, mode switches and the panes on display           *)

\* the pane of that name and the frame that shows it
Pane(w, name) ==
    IF name = "gim" THEN w.gim ELSE IF name = "rim" THEN w.rim ELSE w.gui.cim

SetPane(w, name, s) ==
    IF name = "gim" THEN [w EXCEPT !.gim = s]
    ELSE IF name = "rim" THEN [w EXCEPT !.rim = s]
    ELSE [w EXCEPT !.gui.cim = s]

Visible(w, name) ==
    /\ Pane(w, name) # Absent
    /\ IF name = "gim" THEN w.gui.lr_shown /\ w.gui.left_pane
       ELSE IF name = "rim" THEN w.gui.lr_shown /\ w.gui.right_pane
       ELSE w.gui.new_frame = "shown"

\* the size Tk gives the canvas of a pane of the root window
CanvasOf(name) == IF name = "cim" THEN <<RootWidth, 30>> ELSE <<FrameWidth, 30>>

InitApp ==
    /\ gim = Absent
    /\ rim = Absent
    /\ gui = GuiNew
    /\ call = NoCall
    /\ budget = [contr |-> 0, resize |-> 0, slider |-> 0, level |-> 0,
                 load |-> MaxLoads, mode |-> MaxModeSwitches, scroll |-> MaxPaneScrolls]

Step(w) == gui' = w.gui /\ gim' = w.gim /\ rim' = w.rim

\* the upload button: two file dialogs, then the load
ChooseFileAndDisp ==
    /\ budget.load > 0
    /\ \E path1, path2 \in PathKinds :
          Step(choose_file_and_disp(World(gui, gim, rim), path1, path2))
    /\ budget' = [budget EXCEPT !.load = @ - 1]
    /\ UNCHANGED call

\* the combine button
ToggleComb ==
    /\ budget.mode > 0
    /\ Step(toggle_button_comb(GuiBegin(World(gui, gim, rim), "toggle_button_comb")))
    /\ budget' = [budget EXCEPT !.mode = @ - 1]
    /\ UNCHANGED call

\* the contrast button
ToggleContr ==
    /\ gui.im_loaded
    /\ Step(toggle_button_contr(GuiBegin(World(gui, gim, rim), "toggle_button_contr")))
    /\ UNCHANGED <<budget, call>>

\* <Configure> of a pane that was packed
PaneConfigure ==
    /\ \E name \in {"gim", "rim", "cim"} :
          LET w == World(gui, gim, rim)
              s == Pane(w, name)
          IN  /\ Visible(w, name)
              /\ ~s.mapped
              /\ Step(SetPane(w, name,
                         Track(s, upd_center(s, CanvasOf(name)[1], CanvasOf(name)[2]))))
    /\ UNCHANGED <<budget, call>>

\* <MouseWheel> over a pane on display
PaneScroll ==
    /\ budget.scroll > 0
    /\ \E name \in {"gim", "rim", "cim"}, delta \in {-1, 1} :
          LET w == World(gui, gim, rim)
              s == Pane(w, name)
          IN  /\ Visible(w, name)
              /\ s.mapped
              /\ Step(SetPane(w, name, Track(s, mouse_scroll(s, delta, 0, 0, FALSE))))
    /\ budget' = [budget EXCEPT !.scroll = @ - 1]
    /\ UNCHANGED call

NextApp ==
    ChooseFileAndDisp \/ ToggleComb \/ ToggleContr \/ PaneConfigure \/ PaneScroll

AppSpec == InitApp /\ [][NextApp]_vars

----------------------------------------------------------------------------
(* The application under loads, mode switches and selections of the
   contrast target *)

InitSelect ==
    /\ gim = Absent
    /\ rim = Absent
    /\ gui = GuiNew
    /\ call = NoCall
    /\ budget = [contr |-> 0, resize |-> 0, slider |-> 0, level |-> 0,
                 load |-> MaxSelectLoads, mode |-> MaxModeSwitches, scroll |-> 0]

\* one of the buttons green, red, both of the contrast panel, which is on
\* display
SelectTarget ==
    /\ gui.contr_clicked
    /\ \E b \in RadioButtons : gui' = toggle_radio_button(gui, b)
    /\ UNCHANGED <<gim, rim, budget, call>>

\* the upload button
SelectLoad ==
    /\ budget.load > 0
    /\ \E path1, path2 \in PathKinds :
          Step(choose_file_and_disp(World(gui, gim, rim), path1, path2))
    /\ budget' = [budget EXCEPT !.load = @ - 1]
    /\ UNCHANGED call

NextSelect == SelectLoad \/ ToggleComb \/ ToggleContr \/ SelectTarget

SelectSpec == InitSelect /\ [][NextSelect]_vars

----------------------------------------------------------------------------
(* The application with its contrast panel: a load, mode switches and a
   slider change confirmed by the timer, computed by the thread and applied
   by the main loop *)

InitApply ==
    /\ gim = Absent
    /\ rim = Absent
    /\ gui = GuiNew
    /\ call = NoCall
    /\ budget = [contr |-> 0, resize |-> 0, slider |-> MaxApplySlides, level |-> 0,
                 load |-> MaxApplyLoads, mode |-> MaxApplyModes, scroll |-> 0]

\* the upload button; the event loops of the two file dialogs have run the
\* callbacks that were queued
ApplyLoad ==
    /\ budget.load > 0
    /\ gui.after = <<>>
    /\ \E path1, path2 \in PathKinds :
          Step(choose_file_and_disp(World(gui, gim, rim), path1, path2))
    /\ budget' = [budget EXCEPT !.load = @ - 1]
    /\ UNCHANGED call

\* the contrast panel is on display: Tk invokes the command a scale was left
\* with by Scale.set
ScaleCommand ==
    /\ gui.contr_clicked
    /\ \/ /\ gui.cmd_center
          /\ gui' = update_entry_center([gui EXCEPT !.cmd_center = FALSE],
                                        gui.slider_center)
       \/ /\ gui.cmd_width
          /\ gui' = update_entry_width([gui EXCEPT !.cmd_width = FALSE],
                                       gui.slider_width)
    /\ UNCHANGED <<gim, rim, budget, call>>

NextApply ==
    ApplyLoad \/ ToggleComb \/ ToggleContr \/ ScaleCommand \/ SlideCenter
        \/ TimerFire \/ ThreadStep \/ RunAfter

ApplySpec == InitApply /\ [][NextApply]_vars

----------------------------------------------------------------------------
(* MDNA.windowing applied to pairs of samples under a window                *)

\* windows (lower, upper): the full range, a narrow one, the narrowest, one at
\* the top of the range, and a degenerate one
WindowBounds == {<<STD_LOWER, STD_UPPER>>, <<100, 200>>, <<0, 1>>,
                 <<65534, 65535>>, <<100, 100>>}
\* 16-bit sample values around the bounds
Samples == {0, 1, 99, 100, 101, 150, 199, 200, 201, 65534, 65535}
\* bytes the cast of NaN to uint8 may leave
NanAsUint8 == {0, 128, 255}

InitWindowing ==
    /\ gim = ScrollableImage(Shape, FrameWidth, STD_LOWER, STD_UPPER)
    /\ rim = gim
    /\ gui = GuiInit
    /\ budget = [contr |-> 0, resize |-> 0, slider |-> 0, level |-> 0]
    /\ \E b \in WindowBounds, s \in Samples, t \in Samples :
          /\ s <= t
          /\ call = [fn |-> "windowing", lower |-> b[1], upper |-> b[2],
                     s |-> s, t |-> t, out_s |-> None, out_t |-> None,
                     done |-> FALSE]

\* MDNA.windowing(cy, lower, upper) on a raster holding the samples s and t
CallWindowing ==
    /\ call.fn = "windowing" /\ ~call.done
    /\ \E n1 \in NanAsUint8, n2 \in NanAsUint8 :
          call' = [call EXCEPT
                     !.out_s = windowing(call.s, call.lower, call.upper, n1),
                     !.out_t = windowing(call.t, call.lower, call.upper, n2),
                     !.done = TRUE]
    /\ UNCHANGED <<gim, rim, gui, budget>>

NextWindowing == CallWindowing

WindowingSpec == InitWindowing /\ [][NextWindowing]_vars

----------------------------------------------------------------------------
(* The constructor on its own: a session built from a raster and a width    *)

\* sizes (width, height) of the source raster
SourceShapes ==
    {<<4000, 3000>>, <<2048, 1536>>, <<16, 64>>, <<2667, 2667>>, <<3, 27>>,
     <<700, 18900>>, <<1505, 2835>>, <<610, 3904>>}
\* the display width handed to the constructor
DisplayWidths == {1000, 8, 13, 723, 1653, 387, 625}
\* (smallest, largest) sample of the source raster
SampleRanges == {<<STD_LOWER, STD_UPPER>>, <<100, 60000>>, <<7, 7>>}

InitCreate ==
    /\ gim = Absent
    /\ rim = Absent
    /\ gui = GuiInit
    /\ budget = [contr |-> 0, resize |-> 0, slider |-> 0, level |-> 0]
    /\ \E shape \in SourceShapes, width \in DisplayWidths, samples \in SampleRanges :
          call = [fn |-> "ScrollableImage", shape |-> shape, width |-> width,
                  samples |-> samples, done |-> FALSE]

\* ScrollableImage(image_path=, channel=, width=, lower=STD_LOWER, upper=STD_UPPER)
Create ==
    /\ call.fn = "ScrollableImage"
    /\ ~call.done
    /\ gim' = new_image_window(call.shape, call.width, call.samples)
    /\ call' = [call EXCEPT !.done = TRUE]
    /\ UNCHANGED <<rim, gui, budget>>

NextCreate == Create

CreateSpec == InitCreate /\ [][NextCreate]_vars

----------------------------------------------------------------------------
(* resize_keeping_ratio on its own                                          *)

\* the width and the height asked for; None for an argument left out
TargetWidths == DisplayWidths \cup {None}
TargetHeights == {None, 30, 34, 117, 800}

InitResize ==
    /\ gim = Absent
    /\ rim = Absent
    /\ gui = GuiInit
    /\ budget = [contr |-> 0, resize |-> 0, slider |-> 0, level |-> 0]
    /\ \E shape \in SourceShapes, width \in TargetWidths, height \in TargetHeights :
          call = [fn |-> "resize_keeping_ratio", shape |-> shape, width |-> width,
                  height |-> height, out |-> <<None, None>>, done |-> FALSE]

\* resize_keeping_ratio(image, width, height) on a raster of that shape
CallResize ==
    /\ call.fn = "resize_keeping_ratio"
    /\ ~call.done
    /\ call' = [call EXCEPT !.out = resize_keeping_ratio(call.shape, call.width, call.height),
                            !.done = TRUE]
    /\ UNCHANGED <<gim, rim, gui, budget>>

NextResize == CallResize

ResizeSpec == InitResize /\ [][NextResize]_vars

----------------------------------------------------------------------------
(* Properties of the pane                                                   *)

Dims(s) == s.pyramid[s.c_level].dims

\* offsets inside [0, max(0, level size - canvas size)] on both axes
InBounds(s) ==
    /\ s.c_level \in DOMAIN s.pyramid
    /\ 0 <= s.offset_x /\ s.offset_x <= Max(0, Dims(s)[1] - s.cnvs_w)
    /\ 0 <= s.offset_y /\ s.offset_y <= Max(0, Dims(s)[2] - s.cnvs_h)

\* C1: in every reachable state the entry of the current level exists, is
\* tagged with the window of the session, and holds a raster windowed with it.
C1_CurrentEntryFresh ==
    /\ gim.c_level \in DOMAIN gim.pyramid
    /\ gim.pyramid[gim.c_level].contr = gim.contr
    /\ gim.pyramid[gim.c_level].im = gim.contr

\* a zoom step has just overwritten a stale entry after a change of window,
\* while another level still carries the old window
C1_Witness ==
    /\ gim.op = "mouse_scroll" /\ gim.exc = ""
    /\ gim.c_level \in gim.built
    /\ gim.contr # <<STD_LOWER, STD_UPPER>>
    /\ \E l \in DOMAIN gim.pyramid : gim.pyramid[l].contr # gim.contr

\* C2 (amended): a zoom step that arrives at a level other than Fit reuses the
\* entry untouched when it exists with the current window, and otherwise
\* builds it, tagged with and windowed by the current window; a zoom-out
\* that arrives at Fit always rebuilds the Fit entry with the current window.
C2_ReuseOrRebuild ==
    [][ /\ Done(gim', {"in_from_fit", "in_step", "out_step", "out_from_fit"}) =>
            LET l == gim'.c_level
            IN  IF l \in DOMAIN gim.pyramid /\ gim.pyramid[l].contr = gim.contr
                THEN l \notin gim'.built /\ gim'.pyramid[l] = gim.pyramid[l]
                ELSE /\ l \in gim'.built
                     /\ gim'.pyramid[l].contr = gim.contr
                     /\ gim'.pyramid[l].im = gim.contr
        /\ Done(gim', {"out_fit"}) =>
            /\ outscroll \in gim'.built
            /\ gim'.pyramid[outscroll].contr = gim.contr
            /\ gim'.pyramid[outscroll].im = gim.contr ]_vars

\* a zoom step came back to an integer level whose entry was kept as it was,
\* while a stale entry of another level waits to be rebuilt
C2_Witness ==
    /\ Done(gim, {"in_step", "out_step"})
    /\ gim.c_level \notin gim.built
    /\ \E l \in DOMAIN gim.pyramid : gim.pyramid[l].contr # gim.contr

\* C2 as stated: at every level key, Fit included, an entry that exists
\* with the current window is not rebuilt by the zoom step that arrives at it.
C2_AsStated ==
    [][ Done(gim', {"in_from_fit", "in_step", "out_step", "out_from_fit", "out_fit"}) =>
            LET l == gim'.c_level
            IN  (l \in DOMAIN gim.pyramid /\ gim.pyramid[l].contr = gim.contr) =>
                    l \notin gim'.built /\ gim'.pyramid[l] = gim.pyramid[l] ]_vars

\* C3: after a drag the offsets lie in [0, max(0, level size - canvas size)].
C3_DragClamped ==
    (gim.op = "drag_im" /\ gim.exc = "") => InBounds(gim)

\* a drag was cut at the far end of an axis on which the level is larger
\* than the canvas
C3_Witness ==
    /\ gim.op = "drag_im" /\ gim.exc = ""
    /\ gim.c_level \in DOMAIN gim.pyramid
    /\ gim.offset_y > 0
    /\ gim.offset_y = Dims(gim)[2] - gim.cnvs_h
    /\ gim.offset_x > 0
    /\ gim.offset_x = Dims(gim)[1] - gim.cnvs_w

\* C4 as stated: in every reachable state, here restricted to those whose last
\* handler returned normally, the offsets lie in
\* [0, max(0, level size - canvas size)].
C4_OffsetsAlwaysClamped == (gim.exc = "") => InBounds(gim)

\* C5: a zoom-in request at level MAX_INZOOM_LEVEL changes neither the
\* levels, nor the offsets, nor any entry of the pyramid.
C5_ZoomInAtMaxIsNoOp ==
    [][ \A pos \in MousePos(gim), soon \in BOOLEAN :
          ( /\ gim.c_level = MAX_INZOOM_LEVEL
            /\ gim' = Track(gim, mouse_scroll(gim, 1, pos[1], pos[2], soon)) ) =>
          /\ gim'.c_level = gim.c_level
          /\ gim'.p_level = gim.p_level
          /\ gim'.offset_x = gim.offset_x
          /\ gim'.offset_y = gim.offset_y
          /\ gim'.pyramid = gim.pyramid ]_vars

\* a zoom-in request was received at level MAX_INZOOM_LEVEL and returned early
\* with the view scrolled away from the origin
C5_Witness ==
    /\ gim.op = "mouse_scroll" /\ gim.branch = "in_max"
    /\ gim.c_level = MAX_INZOOM_LEVEL
    /\ gim.offset_y > 0

\* C6 as stated: after a zoom-out the raster of the current level is at
\* least as tall as the canvas.
C6_ZoomOutKeepsHeight ==
    Done(gim, OutBranches) =>
        /\ gim.c_level \in DOMAIN gim.pyramid
        /\ Dims(gim)[2] >= gim.cnvs_h

\* C7 as stated: a zoom-in from a Fit level that was entered by a zoom-out
\* makes current the integer level that was current when Fit was entered.
C7_ZoomInFromFitResumes ==
    (Done(gim, {"in_from_fit"}) /\ gim.fit_from # None) =>
        gim.c_level = gim.fit_from

\* C8 (amended): a one-step zoom-in from an integer level followed at once by
\* a zoom-out that steps down to an integer level ends at the starting level
\* with exactly the starting width and height; a zoom-out that switches to Fit
\* instead ends with a raster built for the height of the canvas.
C8_RoundTrip ==
    [][ (Done(gim, {"in_step"}) /\ gim.p_level # None) =>
          /\ Done(gim', {"out_step"}) =>
                /\ gim'.c_level = gim.p_level
                /\ Dims(gim') = <<gim.old_img_w, gim.old_img_h>>
          /\ Done(gim', {"out_fit"}) =>
                /\ gim'.c_level = outscroll
                /\ Dims(gim') = resize_keeping_ratio(gim.or_shape, None, gim.cnvs_h)
          /\ ~Done(gim', {"out_from_fit"}) ]_vars

\* the zoom-out of a round trip stepped back to the level it started from
C8_Witness ==
    /\ gim.round_trip
    /\ gim.branch = "out_step"
    /\ gim.c_level = gim.p_level - 1

\* C8 as stated: a one-step zoom-in from an integer level followed at once by
\* a zoom-out ends at a level whose width and height are within one pixel of
\* those of the starting level.
C8_AsStated ==
    [][ (Done(gim, {"in_step"}) /\ gim.p_level # None /\ Done(gim', OutBranches)) =>
          /\ gim'.c_level \in DOMAIN gim'.pyramid
          /\ Dims(gim')[1] - gim.old_img_w \in -1..1
          /\ Dims(gim')[2] - gim.old_img_h \in -1..1 ]_vars

\* C19: a set-contrast operation does not clear the cache: every pyramid
\* entry of a level other than the current one keeps its raster, dimensions
\* and stored window, only the current level's entry is rebuilt; and no
\* operation removes a key from the pyramid
C19_ContrastKeepsOtherLevels ==
    [][ /\ DOMAIN gim.pyramid \subseteq DOMAIN gim'.pyramid
        /\ (gim' # gim /\ gim'.op = "alter_contr")
           => \A l \in DOMAIN gim.pyramid \ {gim.c_level} :
                 gim'.pyramid[l] = gim.pyramid[l] ]_vars

\* a contrast change rebuilt the entry of level 1 and left the entry of level
\* 0 with the window it was built for
C19_Witness ==
    /\ gim.op = "alter_contr" /\ gim.branch = "rebuilt"
    /\ gim.c_level = 1
    /\ 0 \in DOMAIN gim.pyramid
    /\ gim.pyramid[0].contr # gim.contr
    /\ gim.pyramid[1].contr = gim.contr

\* C22 as stated: in every reachable state of the viewport, at an integer
\* level or at Fit and at any pan offset, and for every cursor position on the
\* canvas, the pixel probe returns source coordinates (x, y) with
\* 0 <= x <= source width - 1 and 0 <= y <= source height - 1.
C22_ProbeInsideSource ==
    \A pos \in MousePos(gim) :
        /\ get_pixel_coordinates(gim, pos[1], pos[2]).exc = ""
        /\ get_pixel_coordinates(gim, pos[1], pos[2]).x \in 0..(gim.or_shape[1] - 1)
        /\ get_pixel_coordinates(gim, pos[1], pos[2]).y \in 0..(gim.or_shape[2] - 1)

\* C25 as stated: in every state reached by zoom-in, zoom-out and canvas
\* resize steps the current level is Fit or an integer that does not exceed
\* MAX_INZOOM_LEVEL, and the pyramid holds no entry for an integer level above
\* MAX_INZOOM_LEVEL.
C25_LevelAtMostMax ==
    /\ gim.c_level # None
    /\ gim.c_level = outscroll \/ gim.c_level <= MAX_INZOOM_LEVEL
    /\ \A l \in DOMAIN gim.pyramid \ {None, outscroll} : l <= MAX_INZOOM_LEVEL

\* C26 (amended): negative integer levels are used.  A zoom-out from an
\* integer level c <= 0 whose candidate height exceeds the canvas height
\* makes c - 1, a negative integer, the current level, records c as the
\* previous level, and leaves an entry keyed c - 1 in the pyramid.
C26_ZoomOutBelowZero ==
    [][ ( /\ gim.c_level \notin {None, outscroll} /\ gim.c_level <= 0
          /\ gim' # gim /\ Done(gim', {"out_step"}) )
        => ( /\ gim'.c_level = gim.c_level - 1
             /\ gim'.p_level = gim.c_level
             /\ gim'.c_level \in DOMAIN gim'.pyramid ) ]_vars

\* a zoom-out from level 0 on a canvas shorter than the candidate raster has
\* made level -1 current
C26_Witness ==
    /\ Done(gim, {"out_step"})
    /\ gim.c_level = -1 /\ gim.p_level = 0
    /\ -1 \in gim.built

\* C26 as stated: in every reachable state the current level is Fit or an
\* integer >= 0, and no pyramid entry is keyed by a negative integer.
C26_AsStated ==
    /\ gim.c_level # None
    /\ gim.c_level >= 0
    /\ \A l \in DOMAIN gim.pyramid \ {None} : l >= 0

\* the level is an integer: not Fit, and not the None a session starts with
\* as its previous level
IsIntLevel(l) == l \notin {None, outscroll}

\* the step is a scroll event of that delta, not dropped by the delay
IsZoom(delta) == gim' = Track(gim, mouse_scroll(gim, delta, 0, 0, FALSE))

\* C27: a zoom-in from an integer level c < MAX_INZOOM_LEVEL makes c + 1 the
\* current and c the previous level; a zoom-out from an integer level c whose
\* candidate height int(height / 1.15) exceeds the canvas height makes c - 1
\* the current and c the previous level; and no step takes the current level
\* from one integer to another that is more than one away.
C27_OneLevelPerStep ==
    [][ /\ (IsIntLevel(gim.c_level) /\ gim.c_level < MAX_INZOOM_LEVEL /\ IsZoom(1))
           => (gim'.c_level = gim.c_level + 1 /\ gim'.p_level = gim.c_level)
        /\ ( /\ IsIntLevel(gim.c_level)
             /\ IntOverZoom(gim.pyramid[gim.c_level].dims[2]) > gim.cnvs_h
             /\ IsZoom(-1) )
           => (gim'.c_level = gim.c_level - 1 /\ gim'.p_level = gim.c_level)
        /\ (IsIntLevel(gim.c_level) /\ IsIntLevel(gim'.c_level))
           => gim'.c_level - gim.c_level \in -1..1 ]_vars

\* the view was zoomed in to level 2 and stepped back out, one level at a
\* time, to level 0
C27_Witness ==
    /\ Done(gim, {"out_step"})
    /\ gim.c_level = 0 /\ gim.p_level = 1
    /\ 2 \in DOMAIN gim.pyramid

\* the step is the <Configure> handler run on a canvas of that size
IsResize(size) == gim' = Track(gim, upd_center(gim, size[1], size[2]))

\* the height of the image on display once the handler has cropped the
\* current raster to a canvas of that size
Shown(s, size) ==
    move_to([s EXCEPT !.cnvs_w = size[1], !.cnvs_h = size[2]], s.offset_x, s.offset_y).tk_h

\* C28 as stated: a canvas resize that leaves the displayed raster shorter
\* than the canvas switches the session to Fit and replaces the Fit entry by
\* a raster as high as the new canvas, tagged with the current window; a
\* resize that does not changes neither the current level nor any entry of
\* the pyramid.
C28_ResizeFitsOrKeeps ==
    [][ \A size \in TallCanvasSizes :
          IsResize(size) =>
            IF Shown(gim, size) < size[2]
            THEN /\ gim'.c_level = outscroll
                 /\ outscroll \in DOMAIN gim'.pyramid
                 /\ gim'.pyramid[outscroll].dims[2] = size[2]
                 /\ gim'.pyramid[outscroll].contr = gim.contr
            ELSE /\ gim'.c_level = gim.c_level
                 /\ gim'.pyramid = gim.pyramid ]_vars

\* floor(n * f) for f = ZOOM_FACTOR on a zoom-in (delta > 0) and
\* f = 1 / ZOOM_FACTOR on a zoom-out, in exact arithmetic
FloorScaled(n, delta) ==
    IF delta > 0 THEN (ZOOM_NUM * n) \div ZOOM_DEN ELSE (ZOOM_DEN * n) \div ZOOM_NUM

\* clamp(floor((o + m) * f) - m, 0, max(0, level size - canvas size))
ZoomedOffset(o, m, delta, level_dim, canvas_dim) ==
    Max(0, Min(FloorScaled(o + m, delta) - m, Max(0, level_dim - canvas_dim)))

\* C29 as stated: after a zoom step with the cursor at (mx, my) of the canvas
\* and the offset (ox, oy) before it, the new offset is, on each axis,
\* clamp(floor((o + m) * f) - m, 0, max(0, new level size - canvas size)) with
\* f = ZOOM_FACTOR for a zoom-in and 1 / ZOOM_FACTOR for a zoom-out.
C29_OffsetFollowsCursor ==
    [][ \A pos \in MousePos(gim), delta \in {-1, 1} :
          ( /\ gim' = Track(gim, mouse_scroll(gim, delta, pos[1], pos[2], FALSE))
            /\ Done(gim', {"in_step", "in_from_fit"} \cup OutBranches) )
          => ( /\ gim'.offset_x = ZoomedOffset(gim.offset_x, pos[1], delta,
                                               Dims(gim')[1], gim.cnvs_w)
               /\ gim'.offset_y = ZoomedOffset(gim.offset_y, pos[2], delta,
                                               Dims(gim')[2], gim.cnvs_h) ) ]_vars

\* C30: a scroll event with delta 0 changes nothing the view depends on, in
\* whatever state it arrives: the current level, the previous level, the
\* offsets and every entry of the pyramid are as before.
C30_ZeroDeltaIsNoOp ==
    [][ \A pos \in MousePos(gim), soon \in BOOLEAN :
          (gim' = Track(gim, mouse_scroll(gim, 0, pos[1], pos[2], soon))) =>
          /\ gim'.c_level = gim.c_level
          /\ gim'.p_level = gim.p_level
          /\ gim'.offset_x = gim.offset_x
          /\ gim'.offset_y = gim.offset_y
          /\ gim'.pyramid = gim.pyramid ]_vars

\* a scroll event with delta 0 was received, and not dropped by the delay, at
\* a level above 0 with the view scrolled away from the origin
C30_Witness ==
    /\ gim.op = "mouse_scroll" /\ gim.branch = "anomaly"
    /\ IsIntLevel(gim.c_level) /\ gim.c_level > 0
    /\ gim.offset_x > 0 /\ gim.offset_y > 0

\* C34 as stated: whenever the current level is Fit the previous level is a
\* defined integer level, never None, also when Fit was entered by a resize
\* of the canvas right after the load.
C34_FitRemembersLevel ==
    (gim.c_level = outscroll) => IsIntLevel(gim.p_level)

\* C33 as stated: in every state the current level is a key of the pyramid and
\* no zoom, pan, contrast or resize handler has ended on a missing pyramid key,
\* the zoom-out step taken from Fit after the canvas shrank included.
C33_NoMissingKey ==
    gim.c_level \in DOMAIN gim.pyramid /\ gim.exc # "KeyError"

\* alter_contr is run with the window contr
IsAlter(contr) == gim' = Track(gim, alter_contr(gim, contr))

\* C35 as stated: a set-contrast operation leaves the current level, the
\* previous level, the pan offset and the (width, height) stored for the
\* current level as they were, at every integer level and at Fit.
C35_ContrastKeepsViewport ==
    [][\A contr \in Windows :
          IsAlter(contr) =>
              /\ gim'.c_level = gim.c_level
              /\ gim'.p_level = gim.p_level
              /\ gim'.offset_x = gim.offset_x
              /\ gim'.offset_y = gim.offset_y
              /\ gim'.pyramid[gim.c_level].dims = gim.pyramid[gim.c_level].dims]_vars

\* C36: the source raster keeps its shape, the full-resolution windowed raster
\* is the source windowed with the session's current contrast window, and
\* every pyramid entry tagged with a window was resized from the source
\* windowed with that window.
C36_WindowedFromSource ==
    /\ gim.or_shape = Shape
    /\ gim.orig_windowed_im = gim.contr
    /\ \A l \in DOMAIN gim.pyramid : gim.pyramid[l].im = gim.pyramid[l].contr

\* a level was built by a zoom step after the window was changed, next to a
\* level still cached with the window of the load
C36_Witness ==
    /\ gim.op = "mouse_scroll" /\ gim.exc = "" /\ gim.built # {}
    /\ gim.contr # <<STD_LOWER, STD_UPPER>>
    /\ \E l \in DOMAIN gim.pyramid : gim.pyramid[l].contr = <<STD_LOWER, STD_UPPER>>

\* the session is at Fit and the Fit entry has the size built for the canvas
\* as it is now
AtFitForCanvas(s) ==
    /\ s.c_level = outscroll
    /\ s.pyramid[outscroll].dims = resize_keeping_ratio(s.or_shape, None, s.cnvs_h)

\* C40 as stated: a zoom-out request at Fit, on the canvas Fit was built for,
\* leaves the level at Fit and the previous level, the dimensions of the Fit
\* entry and the pan offset as they were.
C40_ZoomOutAtFitIsNoOp ==
    [][\A pos \in MousePos(gim) :
          (/\ AtFitForCanvas(gim)
           /\ gim' = Track(gim, mouse_scroll(gim, -1, pos[1], pos[2], FALSE)))
          => /\ gim'.c_level = outscroll
             /\ gim'.p_level = gim.p_level
             /\ gim'.pyramid[outscroll].dims = gim.pyramid[outscroll].dims
             /\ gim'.offset_x = gim.offset_x
             /\ gim'.offset_y = gim.offset_y]_vars

\* C32 as stated: every call of zoom_to_level that enters its loop leaves it,
\* and when it returns (rather than ending with an exception of mouse_scroll)
\* the current level is the target level.
C32_ZoomToLevelReaches ==
    (call.pc = "loop")
        ~> (call.pc = "raised" \/ (call.pc = "returned" /\ gim.c_level = call.level))

----------------------------------------------------------------------------
(* Properties of the contrast panel                                         *)

\* no timer pending, no thread alive, no callback queued
Quiescent(g) == ~g.timer /\ Alive(g) = {} /\ g.after = <<>>

\* C9: at no time are two contrast computation threads alive.
C9_OneThreadAlive == Cardinality(Alive(gui)) <= 1

\* a second thread runs after the first has finished, and a call of
\* confirm_windowing made while a thread was alive has started none
C9_Witness ==
    /\ Len(gui.threads) >= 2
    /\ Cardinality(Alive(gui)) = 1
    /\ gui.last = "dropped"

\* C10 as stated: a slider request is not lost. Once nothing is pending any
\* more, with both channels targeted from the start and no radio button ever
\* pressed, the window of both panes is the one computed from the slider
\* values requested last.
C10_RequestNotLost ==
    (Quiescent(gui) /\ gui.requested /\ ~gui.toggled) =>
        /\ gim.contr = windowing_parameters(gui.window_center, gui.window_width)
        /\ rim.contr = windowing_parameters(gui.window_center, gui.window_width)

\* C11: the state of a session (pyramid, level, offsets, window, windowed
\* raster) changes only in steps of the main loop: no step in which the
\* computation thread advances changes the green, red or composite session.
C11_SessionsOnlyOnMainLoop ==
    [][ (gim' # gim \/ rim' # rim \/ gui'.cim # gui.cim) =>
            gui'.threads = gui.threads ]_vars

\* a queued callback has rebuilt the green pane while a later thread is
\* running
C11_Witness ==
    /\ gim.op = "alter_contr" /\ gim.branch = "rebuilt"
    /\ Alive(gui) # {}
    /\ gui.after # <<>>

\* C31 as stated: the confirmation of a burst of slider changes starts exactly
\* one recomputation. Whenever the pending timer fires, confirm_windowing
\* starts one thread.
C31_BurstStartsOneThread ==
    [][ (gui.timer /\ ~gui'.timer) =>
            Len(gui'.threads) = Len(gui.threads) + 1 ]_vars

----------------------------------------------------------------------------
(* Properties of MDNA.windowing                                             *)

\* the quotient n / d rounded to the nearest integer, halves upward
RoundDiv(n, d) == (2 * n + d) \div (2 * d)

\* C12: with lower < upper the output is a byte, does not decrease when the
\* sample grows, is 0 for samples up to lower and 255 for samples from upper.
C12_WindowingMonotoneSaturating ==
    (call.fn = "windowing" /\ call.done /\ call.lower < call.upper) =>
        /\ call.out_s \in 0..255 /\ call.out_t \in 0..255
        /\ call.out_s <= call.out_t
        /\ (call.s <= call.lower => call.out_s = 0)
        /\ (call.t <= call.lower => call.out_t = 0)
        /\ (call.s >= call.upper => call.out_s = 255)
        /\ (call.t >= call.upper => call.out_t = 255)

\* two samples strictly inside the window, one below and one above its middle
C12_Witness ==
    /\ call.fn = "windowing" /\ call.done
    /\ call.lower < call.s /\ call.s < call.t /\ call.t < call.upper
    /\ 0 < call.out_s /\ call.out_s < call.out_t /\ call.out_t < 255

C14_WindowingRounds ==
    (call.fn = "windowing" /\ call.done /\ call.lower < call.upper) =>
        /\ call.out_s = RoundDiv(255 * (clip(call.s, call.lower, call.upper) - call.lower),
                                 call.upper - call.lower)
        /\ call.out_t = RoundDiv(255 * (clip(call.t, call.lower, call.upper) - call.lower),
                                 call.upper - call.lower)

----------------------------------------------------------------------------
(* Properties of the windows the contrast panel applies                     *)

\* C15 as stated: every window (lower, upper) that was passed to alter_contr
\* satisfies 0 <= lower <= upper <= 65535.
C15_WindowsInRange ==
    \A s \in {gim, rim} :
        s.op = "alter_contr" =>
            /\ STD_LOWER <= s.contr[1]
            /\ s.contr[1] <= s.contr[2]
            /\ s.contr[2] <= STD_UPPER

\* C37 as stated: under every interleaving of the thread with the events of
\* the main loop, a window passed to alter_contr is windowing_parameters of one
\* (center, width) pair of slider positions, or the full-range window the
\* stored bounds start with: its lower and upper bound never come from two
\* different requests.
C37_WindowFromOneRequest ==
    \A s \in {gim, rim} :
        s.op = "alter_contr" =>
            \/ s.contr = <<STD_LOWER, STD_UPPER>>
            \/ \E c \in Centers, w \in Widths : s.contr = windowing_parameters(c, w)

----------------------------------------------------------------------------
(* Properties of loading and of switching the mode                          *)

\* the step is the upload handler run on the two paths the dialogs returned
IsLoad(path1, path2) ==
    World(gui', gim', rim') = choose_file_and_disp(World(gui, gim, rim), path1, path2)

\* the step is the combine button's handler
IsToggleComb ==
    World(gui', gim', rim') =
        toggle_button_comb(GuiBegin(World(gui, gim, rim), "toggle_button_comb"))

\* C16: a load that fails because one of the two selected .tif files does not
\* decode reports the error and leaves the green and red sessions, their
\* panes and the image-loaded flag as they were before the attempt
C16_FailedDecodeLeavesState ==
    [][ \A path1, path2 \in PathKinds :
           ( /\ gui.im_loaded
             /\ accepts_path(path1) /\ accepts_path(path2)
             /\ ~(decodes(path1) /\ decodes(path2))
             /\ IsLoad(path1, path2) )
           => ( /\ gui'.exc # ""
                /\ gim' = gim /\ rim' = rim
                /\ gui'.left_pane = gui.left_pane /\ gui'.right_pane = gui.right_pane
                /\ gui'.im_loaded = gui.im_loaded ) ]_vars

\* a path choose_file must refuse: no file selected, or a name not ending in .tif
Refused(path) == path \in {"", "a.txt"}

\* C17: if either selected path is empty or does not end in ".tif", the load
\* is rejected before any decode and before any state is changed: no session
\* is created or destroyed, and the mode flags, the contrast values and the
\* panes are unchanged (only the error and, when the first path was good, the
\* remembered green path differ)
C17_RefusedPathChangesNothing ==
    [][ \A path1, path2 \in PathKinds :
           ( (Refused(path1) \/ Refused(path2)) /\ IsLoad(path1, path2) )
           => ( /\ gui'.exc = "Exception"
                /\ gim' = gim /\ rim' = rim
                /\ [gui' EXCEPT !.gpath = gui.gpath, !.op = gui.op,
                                !.branch = gui.branch, !.exc = gui.exc] = gui ) ]_vars

\* a load was refused while the composite of a loaded pair was on display
C17_Witness ==
    /\ gui.op = "choose_file_and_disp" /\ gui.branch = "rejected"
    /\ gui.gpath = "bad.tif"
    /\ gui.im_loaded /\ gui.comb_clicked
    /\ gui.cim # Absent /\ gui.cim.mapped

\* the state a session has when it was just built: level 0 alone in the
\* pyramid, no pan
JustBuilt(s) ==
    /\ s # Absent
    /\ s.c_level = 0 /\ DOMAIN s.pyramid = {0}
    /\ s.offset_x = 0 /\ s.offset_y = 0

C23_MismatchLeavesChannels ==
    [][ ( /\ gui.im_loaded /\ ~gui.comb_clicked
          /\ gim # Absent /\ rim # Absent
          /\ gim.or_shape # rim.or_shape
          /\ IsToggleComb )
        => ( /\ gui'.exc # ""
             /\ gui'.cim = Absent
             /\ ~gui'.comb_clicked
             /\ gui'.lr_shown /\ gui'.left_pane /\ gui'.right_pane
             /\ gui'.new_frame # "shown" ) ]_vars

\* the contrast-target flag of that button
Flag(g, b) ==
    IF b = "green" THEN g.green_clicked
    ELSE IF b = "red" THEN g.red_clicked
    ELSE g.both_clicked

\* one flag is true and it is the one selected last
OneTarget(g) ==
    /\ Cardinality({b \in RadioButtons : Flag(g, b)}) = 1
    /\ Flag(g, g.selected)

\* C39: after construction and after every selection, load and mode switch
\* exactly one of green_clicked, red_clicked, both_clicked is true, and it is
\* the one selected last; a load whose two paths were accepted selects 'both'.
C39_ExactlyOneTarget ==
    [][ /\ OneTarget(gui) /\ OneTarget(gui')
        /\ \A path1, path2 \in PathKinds :
              (~Refused(path1) /\ ~Refused(path2) /\ IsLoad(path1, path2))
                  => gui'.both_clicked ]_vars

\* the red target was selected and a later switch put the composite on display
C39_Witness ==
    /\ gui.red_clicked /\ gui.selected = "red"
    /\ gui.op = "toggle_button_comb" /\ gui.comb_clicked /\ gui.cim # Absent

\* C38 as stated: an apply step never calls alter_contr on an absent green,
\* red or composite session; no callback the thread queued ends with the
\* AttributeError of a call on None.
C38_ApplyOnExistingSession == gui.exc # "AttributeError"

----------------------------------------------------------------------------
(* Properties of the constructor                                            *)

\* C20: right after a session is created from a W x H raster with display
\* width w, the current level is 0, the pan offset is (0, 0), the pyramid
\* holds exactly the level-0 entry, and that entry is w wide and H*w/W high
\* (stated for the sizes where H*w/W is a whole number of pixels)
C20_CreatedAtLevelZero ==
    (call.fn = "ScrollableImage" /\ call.done /\ (call.shape[2] * call.width) % call.shape[1] = 0)
    => ( /\ gim.c_level = 0
         /\ gim.offset_x = 0 /\ gim.offset_y = 0
         /\ DOMAIN gim.pyramid = {0}
         /\ gim.pyramid[0].dims[1] = call.width
         /\ gim.pyramid[0].dims[2] * call.shape[1] = call.shape[2] * call.width )

----------------------------------------------------------------------------
(* Properties of resize_keeping_ratio                                       *)

\* C24 as stated: with a target width (resp. height) alone the result has
\* exactly the target in that dimension and, in the other one, the original
\* dimension scaled by the same ratio and rounded to the nearest integer;
\* with neither target the result has the original dimensions.
C24_ResizeRoundsToNearest ==
    (call.fn = "resize_keeping_ratio" /\ call.done) =>
        /\ (call.width = None /\ call.height = None) => call.out = call.shape
        /\ (call.width # None /\ call.height = None) =>
               /\ call.out[1] = call.width
               /\ call.out[2] = RoundDiv(call.shape[2] * call.width, call.shape[1])
        /\ (call.width = None /\ call.height # None) =>
               /\ call.out[2] = call.height
               /\ call.out[1] = RoundDiv(call.shape[1] * call.height, call.shape[2])

====
